---- MODULE Spec2Model ----
(***************************************************************************)
(* Model of the mobile-money payment workflow of SmartClause 2.0:          *)
(* PaymentFlowManager (payment_flow.py) over the DatabaseManager payment   *)
(* tables (database.py) and the MpesaHandler gateway client                *)
(* (mpesa_handler.py).                                                     *)
(*                                                                         *)
(* Callers (UI sessions / requests) are the processes of Procs.  A call of *)
(* verify_and_process_payment is split at every call to an external       *)
(* collaborator (store read, gateway query, store update, effect), so that *)
(* two calls interleave exactly where two Python requests can.             *)
(* initiate_organization_purchase and get_pending_payment are one action   *)
(* each.  The gateway, the store and the effect application are the        *)
(* environment: every call to them draws its outcome (a response, a        *)
(* swallowed store error, a raised exception) nondeterministically.        *)
(***************************************************************************)
EXTENDS Integers, Sequences, FiniteSets, TLC

\* ------------------------------------------------------------------ bounds
\* largest max_attempts argument a caller passes to verify_and_process_payment
MaxAttempts == 2
\* number of API calls (initiate / verify / get_pending) started in one run
MaxCalls == 2
\* rows the payment_transactions table can hold
MaxTx == 2
\* number of clock ticks in one run
MaxTicks == 1

\* ---------------------------------------------------------------- constants
\* Python's None
NoneVal == "None"

Procs == {"A", "B"}
Users == {"u1", "u2"}
\* organization_id arguments ("": an empty id)
Orgs == {"org_1", ""}
CheckoutIds == {"ws_CO_1", "ws_CO_2"}

\* subscription_manager.PRICING: tier -> amount
PRICING ==
  [trial |-> 0, individual |-> 850000, team |-> 650000, enterprise |-> 500000]

\* Optional values that are not strings: None is the empty set
None == {}
Some(v) == {v}
Get(o) == CHOOSE v \in o : TRUE

\* phone numbers are sequences of characters: 0..9 the digits, 10 a character
\* that is no digit ("+", " "), 11 a character that is none of 0..9 and that
\* str.isdigit accepts (a superscript digit).  "254712345678", "123", and a missing (None) phone number
PhoneArgs == {Some(<<2, 5, 4, 7, 1, 2, 3, 4, 5, 6, 7, 8>>), Some(<<1, 2, 3>>), None}

\* minutes the clock advances in one tick
TickSteps == {31}
\* get_pending_payment: age.total_seconds() < 1800
PendingWindowSeconds == 1800
\* timedelta(days=30), in minutes
PeriodMinutes == 43200

\* result codes the gateway's status query can return ("" : no ResultCode in
\* the response, "17": a code the orchestrator does not recognise)
ResultCodes == {"0", "1032", "1037", "1", "", "17"}
\* payment_flow.py line 218
FailureCodes == {"1032", "1037", "1"}
ReceiptNumbers == {"RCT1"}

\* what MpesaHandler.query_stk_push gives back: a parsed response, or an
\* exception (it logs and re-raises)
QueryException == [raised |-> TRUE, ResultCode |-> "", MpesaReceiptNumber |-> ""]
QueryOutcomes ==
  {[raised |-> FALSE, ResultCode |-> c, MpesaReceiptNumber |-> r] :
      c \in ResultCodes \ {"0"}, r \in {""}}
  \cup {[raised |-> FALSE, ResultCode |-> "0", MpesaReceiptNumber |-> r] :
      r \in ReceiptNumbers}
  \cup {QueryException}

\* ---------------------------------------------------------------- variables
VARIABLES
  payment_transactions,        \* table payment_transactions: sequence of rows
  organization_subscriptions,  \* table organization_subscriptions: sequence of rows
  credits,                     \* credit balance per user (credit authority)
  standard_until,              \* individual subscription end per user, 0: none
  now,                         \* wall clock, minutes
  ticks,                       \* clock ticks taken
  calls,                       \* API calls started
  pc,                          \* per caller: position in its current call
  args,                        \* per caller: arguments of the current call
  transaction,                 \* per caller: the row verify loaded (local)
  attempts,                    \* per caller: verify's attempts counter (local)
  response,                    \* per caller: last gateway query outcome (local)
  result,                      \* per caller: value returned by the call
  hist,                        \* per caller: what the current call did so far
  effects,                     \* per checkout id: times its effect was applied
  session_state,               \* st.session_state of the UI session
  guard,                       \* the session's script: position in its call,
                               \* verify_payment's locals, what the call met
  mpesa                        \* the MpesaHandler: the environment it is made
                               \* in, whether it was made, its last call

vars == <<payment_transactions, organization_subscriptions, credits,
          standard_until, now, ticks, calls, pc, args, transaction, attempts,
          response, result, hist, effects, session_state, guard,
          mpesa>>

store == <<payment_transactions, organization_subscriptions, credits,
           standard_until, effects>>
locals == <<args, transaction, attempts, response, result, hist>>
session == <<session_state, guard>>

\* ------------------------------------------------------------- store rows
\* DatabaseManager.create_payment_transaction: the row it inserts
NewTransaction(user_id, amount, transaction_type, checkout_request_id, credits_purchased, organization_id, seats, tier, date) ==
  [user_id |-> user_id,
   amount |-> amount,
   transaction_type |-> transaction_type,
   checkout_request_id |-> checkout_request_id,
   credits_purchased |-> credits_purchased,
   payment_status |-> "pending",
   mpesa_receipt_number |-> NoneVal,
   transaction_date |-> date,
   metadata |-> [organization_id |-> organization_id, seats |-> seats,
                 tier |-> tier]]

\* a None in place of a row
NoTransaction ==
  [NewTransaction(NoneVal, 0, NoneVal, NoneVal, 0, NoneVal, None, NoneVal, 0)
     EXCEPT !.payment_status = NoneVal]
IsNone(row) == row.payment_status = NoneVal

\* DatabaseManager.create_payment_transaction: insert, or swallow the store's
\* error and return None leaving the table as it was
create_payment_transaction(table, row, dbOk) ==
  IF dbOk THEN Append(table, row) ELSE table

\* rows of the table with this checkout_request_id
Matching(table, checkout_request_id) ==
  {i \in DOMAIN table : table[i].checkout_request_id = checkout_request_id}

\* DatabaseManager.get_payment_transaction_by_checkout_id: .single() raises
\* unless exactly one row matches; every exception is swallowed into None
get_payment_transaction_by_checkout_id(table, checkout_request_id, dbOk) ==
  LET m == Matching(table, checkout_request_id)
  IN  IF dbOk /\ Cardinality(m) = 1
        THEN table[CHOOSE i \in m : TRUE]
        ELSE NoTransaction

\* DatabaseManager.update_payment_status: unconditional UPDATE ... WHERE
\* checkout_request_id = ?; mpesa_receipt_number only when a receipt is given;
\* a store error is swallowed (returns False)
update_payment_status(table, checkout_request_id, status, receipt_number, dbOk) ==
  IF dbOk
    THEN [i \in DOMAIN table |->
            IF table[i].checkout_request_id = checkout_request_id
              THEN [table[i] EXCEPT
                      !.payment_status = status,
                      !.mpesa_receipt_number =
                          IF receipt_number \notin {"", NoneVal}
                            THEN receipt_number ELSE @]
              ELSE table[i]]
    ELSE table

\* DatabaseManager.create_organization_subscription: the row it inserts
NewOrganizationSubscription(organization_id, subscription_tier, seats_purchased, price_per_seat, t) ==
  [organization_id |-> organization_id,
   subscription_tier |-> subscription_tier,
   status |-> "active",
   seats_purchased |-> seats_purchased,
   seats_used |-> 0,
   price_per_seat |-> price_per_seat,
   current_period_start |-> t,
   current_period_end |-> t + PeriodMinutes]

\* ------------------------------------------------------------ gateway client
\* str.isdigit
IsDigit(c) == c \in 0..9 \cup {11}
StartsWith(s, prefix) ==
  Len(s) >= Len(prefix) /\ SubSeq(s, 1, Len(prefix)) = prefix
CountryCode == <<2, 5, 4>>

\* MpesaHandler._sanitize_phone_number; ok = FALSE is its ValueError
sanitize_phone_number(phone_number) ==
  LET digits == SelectSeq(phone_number, IsDigit)
      phone_digits ==
        IF StartsWith(digits, <<0>>) THEN CountryCode \o Tail(digits)
        ELSE IF StartsWith(digits, <<7>>) /\ Len(digits) = 9
          THEN CountryCode \o digits
        ELSE IF ~StartsWith(digits, CountryCode) /\ Len(digits) = 9
          THEN CountryCode \o digits
        ELSE digits
  IN  IF StartsWith(phone_digits, CountryCode) /\ Len(phone_digits) = 12
        THEN [ok |-> TRUE, value |-> phone_digits]
        ELSE [ok |-> FALSE, value |-> <<>>]

\* what the provider answers to a push request that reached it: accepted with
\* a CheckoutRequestID, or a structured error carrying no ResponseCode
PushError ==
  [ResponseCode |-> NoneVal, CheckoutRequestID |-> NoneVal,
   errorMessage |-> "gateway error"]
PushAnswers ==
  {[ResponseCode |-> "0", CheckoutRequestID |-> c, errorMessage |-> NoneVal] :
      c \in CheckoutIds} \cup {PushError}

\* MpesaHandler.initiate_stk_push: a ValueError of the phone check and any
\* other exception (transportOk = FALSE) become a ResponseCode "1" response
initiate_stk_push(phone_number, answer, transportOk) ==
  IF ~sanitize_phone_number(phone_number).ok
    THEN [ResponseCode |-> "1", CheckoutRequestID |-> NoneVal,
          errorMessage |-> "Invalid input"]
  ELSE IF ~transportOk
    THEN [ResponseCode |-> "1", CheckoutRequestID |-> NoneVal,
          errorMessage |-> "An error occurred during payment initiation"]
  ELSE answer

\* MpesaHandler.__init__: the environment variables it reads, and those its
\* required_vars list names
ConfigNames ==
  {"SAF_SHORTCODE", "SAF_TILL_NUMBER", "SAF_CONSUMER_KEY",
   "SAF_CONSUMER_SECRET", "SAF_ACCESS_TOKEN_API", "SAF_PASS_KEY",
   "SAF_STK_PUSH_API", "SAF_STK_PUSH_QUERY_API", "CALLBACK_URL"}
required_vars ==
  {"SAF_SHORTCODE", "SAF_TILL_NUMBER", "SAF_CONSUMER_KEY",
   "SAF_CONSUMER_SECRET", "SAF_ACCESS_TOKEN_API", "SAF_PASS_KEY",
   "SAF_STK_PUSH_API", "CALLBACK_URL"}

\* no call of the handler was made
NoClientCall ==
  [op |-> "none", phone_number |-> <<>>, ok |-> FALSE, value |-> <<>>,
   again |-> FALSE, raised |-> FALSE, config_missing |-> FALSE,
   ResultCode |-> NoneVal, ResponseCode |-> NoneVal]
\* the handler before and after __init__ in an environment that sets env
NotConstructed(env) == [env |-> env, state |-> "none", call |-> NoClientCall]
Constructed(env) == [env |-> env, state |-> "constructed", call |-> NoClientCall]

\* ------------------------------------------------- credit/subscription authority
\* SubscriptionManager.add_credits(user_id, credits): the balance after it
add_credits(balance, user_id, n) ==
  [balance EXCEPT ![user_id] = @ + n]

\* SubscriptionManager.upgrade_to_standard(user_id, end_date)
upgrade_to_standard(until, user_id, end_date) ==
  [until EXCEPT ![user_id] = end_date]

\* ------------------------------------------------------------------ results
\* the dict an API method returns; a key the dict lacks is None / NoneVal.
\* raised = TRUE: no dict, an exception reached the caller
NoResult ==
  [op |-> "none", raised |-> FALSE, success |-> FALSE, message |-> "",
   already_processed |-> FALSE, credits_added |-> None,
   subscription_end_date |-> None, tier |-> NoneVal,
   checkout_request_id |-> NoneVal, amount |-> None, row |-> None]

Returned(op, success, message) ==
  [NoResult EXCEPT !.op = op, !.success = success, !.message = message]

Propagated(op) == [NoResult EXCEPT !.op = op, !.raised = TRUE]

NoArgs ==
  [op |-> "none", checkout_request_id |-> NoneVal, user_id |-> NoneVal,
   max_attempts |-> 0]
NoResponse == [raised |-> FALSE, ResultCode |-> NoneVal, MpesaReceiptNumber |-> ""]
\* no push request was made
NoPush ==
  [ResponseCode |-> NoneVal, CheckoutRequestID |-> NoneVal,
   errorMessage |-> NoneVal]
\* no purchase was requested
NoRequest == [organization_id |-> NoneVal, tier |-> NoneVal, seats |-> None]
\* bookkeeping of one call: gateway queries made, update_payment_status calls
\* made (their status and receipt arguments), effect applications attempted
\* and done, whether a query returned "0", how many queries raised,
\* effects[checkout id] when the row was loaded, and whether the caller's
\* previous call was a verify of the same checkout id that timed out; for
\* initiate, its organization_id, tier and seats arguments, the Amount of the
\* push request it sent and the response it got; for get_pending, the user
\* whose history it read and whether the read or a date's parsing failed
NoHist ==
  [polls |-> 0, updates |-> <<>>, effect_calls |-> 0, effects_applied |-> 0,
   saw_success |-> FALSE, raised |-> 0, effects_at_load |-> 0,
   after_timeout |-> FALSE, request |-> NoRequest, push_amount |-> None,
   push_response |-> NoPush, history_of |-> NoneVal, read_failed |-> FALSE]

\* ------------------------------------------------------------------- Init
\* rows of the two earlier purchase kinds, which verify still handles (inserted
\* through DatabaseManager.create_payment_transaction)
CreditRow ==
  NewTransaction("u1", 60000, "credit_purchase", "ws_CO_1", 10, NoneVal, None,
                 NoneVal, 0)
SubscriptionRow ==
  NewTransaction("u1", 750000, "subscription", "ws_CO_1", 0, NoneVal, None,
                 NoneVal, 0)

\* ------------------------------ session payment guard: payment_verification.py
\* verify_payment: max_attempts = 5
GuardMaxAttempts == 5
\* handle_download_request: timedelta(minutes=30)
SessionTTLMinutes == 30
\* verify_payment line 54
GuardFailureCodes == {"1032", "1037"}
\* amounts update_payment_status is called with
GuardAmounts == {100}

\* dataclass PaymentStatus; document ids are numbered in the order
\* generate_document_id made them
PaymentStatus(document_id, checkout_request_id, amount, timestamp) ==
  [document_id |-> document_id, checkout_request_id |-> checkout_request_id,
   amount |-> amount, timestamp |-> timestamp, verified |-> FALSE,
   attempts |-> 0]

\* init_payment_state on a new session
init_payment_state ==
  [payment_status |-> None, payment_verified |-> FALSE,
   current_document_id |-> None]

\* the session's script is in no call.  returned: what handle_download_request
\* returned; entry: what it found when it was called; last: the gateway's
\* last answer to verify_payment; confirmed: the gateway answered "0" for the
\* checkout id of the session's PaymentStatus since that was recorded;
\* documents: ids generate_document_id has made; checkout_request_id: the id
\* verify_payment was called with; paid: the checkout ids the gateway has
\* answered "0" for; kind: what verify_payment took the last answer for
NoEntry == [document |-> FALSE, status |-> FALSE, verified |-> FALSE, age |-> None]
NoGuard ==
  [pc |-> "idle", op |-> "none", attempts |-> 0, returned |-> None,
   entry |-> NoEntry, queried |-> FALSE, last |-> NoResponse,
   confirmed |-> FALSE, documents |-> 0, checkout_request_id |-> NoneVal,
   paid |-> {}, kind |-> NoneVal]

InitClient(tables, sessions, handlers) ==
  /\ payment_transactions \in tables
  /\ session_state \in sessions
  /\ guard = [NoGuard EXCEPT
                !.confirmed = session_state.payment_verified,
                !.paid = IF session_state.payment_verified
                         THEN {Get(session_state.payment_status).checkout_request_id}
                         ELSE {},
                !.documents = IF session_state.current_document_id = None
                              THEN 0
                              ELSE Get(session_state.current_document_id)]
  /\ organization_subscriptions = <<>>
  /\ credits = [u \in Users |-> 0]
  /\ standard_until = [u \in Users |-> 0]
  /\ now = 0
  /\ ticks = 0
  /\ calls = 0
  /\ pc = [p \in Procs |-> "idle"]
  /\ args = [p \in Procs |-> NoArgs]
  /\ transaction = [p \in Procs |-> NoTransaction]
  /\ attempts = [p \in Procs |-> 0]
  /\ response = [p \in Procs |-> NoResponse]
  /\ result = [p \in Procs |-> NoResult]
  /\ hist = [p \in Procs |-> NoHist]
  /\ effects = [c \in CheckoutIds |-> 0]
  /\ mpesa \in handlers

\* the payment flow and the session guard are given a handler that was made
\* in a complete environment
InitSession(tables, sessions) ==
  InitClient(tables, sessions, {Constructed(ConfigNames)})

InitWith(tables) == InitSession(tables, {init_payment_state})

\* a caller starts a call when it is in no call: before its first, or when the
\* previous one has returned
Free(p) == pc[p] \in {"idle", "done"} /\ calls < MaxCalls

\* ------------------------------------- verify_and_process_payment, lines 135-253
\* faulty variant of VerifyEntry: the completed row is polled again
VerifyEntry_NoIdempotence(tx) ==
  IF IsNone(tx) THEN "not_found" ELSE "poll"

\* lines 137-150: what the loaded row decides
VerifyEntry(tx) ==
  IF IsNone(tx) THEN "not_found"
  ELSE IF tx.payment_status = "completed" THEN "already_processed"
  ELSE "poll"

\* faulty variant of Classify: every code but "0" is a terminal failure
Classify_UnknownIsFailure(resp) ==
  IF resp.ResultCode = "0" THEN "success" ELSE "failed"

\* line 157-218: result_code = str(response.get("ResultCode", "")) and its branch
Classify(resp) ==
  IF resp.ResultCode = "0" THEN "success"
  ELSE IF resp.ResultCode \in FailureCodes THEN "failed"
  ELSE "pending"

\* lines 232-234: still pending, wait and retry
StillPending(n) == n + 1
\* faulty variant of InnerExcept: an exception costs two attempts
InnerExcept_TwoAttempts(n) == n + 2
\* lines 236-239: except Exception inside the loop
InnerExcept(n) == n + 1

\* line 154 and lines 241-246: the loop condition, and the timeout return
TimeoutResult ==
  Returned("verify", FALSE,
           "Payment verification timed out. Please contact support if amount was deducted.")
\* faulty variant of LoopOrTimeout: while attempts <= max_attempts
LoopOrTimeout_OffByOne(p, n) ==
  /\ attempts' = [attempts EXCEPT ![p] = n]
  /\ response' = [response EXCEPT ![p] = NoResponse]
  /\ IF n <= args[p].max_attempts
       THEN /\ pc' = [pc EXCEPT ![p] = "query"]
            /\ result' = [result EXCEPT ![p] = NoResult]
       ELSE /\ pc' = [pc EXCEPT ![p] = "done"]
            /\ result' = [result EXCEPT ![p] = TimeoutResult]
LoopOrTimeout(p, n) ==
  /\ attempts' = [attempts EXCEPT ![p] = n]
  /\ response' = [response EXCEPT ![p] = NoResponse]
  /\ IF n < args[p].max_attempts
       THEN /\ pc' = [pc EXCEPT ![p] = "query"]
            /\ result' = [result EXCEPT ![p] = NoResult]
       ELSE /\ pc' = [pc EXCEPT ![p] = "done"]
            /\ result' = [result EXCEPT ![p] = TimeoutResult]

\* lines 137-153
VerifyStart(p, checkout_request_id, user_id, max_attempts, dbOk) ==
  /\ Free(p)
  /\ calls' = calls + 1
  /\ LET tx == get_payment_transaction_by_checkout_id(
                 payment_transactions, checkout_request_id, dbOk)
         entry == VerifyEntry(tx)
     IN  /\ args' = [args EXCEPT ![p] =
                       [op |-> "verify",
                        checkout_request_id |-> checkout_request_id,
                        user_id |-> user_id, max_attempts |-> max_attempts]]
         /\ transaction' = [transaction EXCEPT ![p] = tx]
         /\ attempts' = [attempts EXCEPT ![p] = 0]
         /\ response' = [response EXCEPT ![p] = NoResponse]
         /\ hist' = [hist EXCEPT ![p] =
                       [NoHist EXCEPT
                          !.effects_at_load = effects[checkout_request_id],
                          !.after_timeout =
                              /\ args[p].op = "verify"
                              /\ args[p].checkout_request_id = checkout_request_id
                              /\ result[p] = TimeoutResult]]
         /\ pc' = [pc EXCEPT ![p] = IF entry = "poll" THEN "query" ELSE "done"]
         /\ result' = [result EXCEPT ![p] =
              CASE entry = "not_found" ->
                     Returned("verify", FALSE, "Transaction not found")
                [] entry = "already_processed" ->
                     [Returned("verify", TRUE, "Payment already processed")
                        EXCEPT !.already_processed = TRUE]
                [] OTHER -> NoResult]
  /\ UNCHANGED <<store, now, ticks, mpesa, session>>

\* lines 154-158, 218, 232-239: one gateway status query and its branch
Query(p, outcome) ==
  /\ pc[p] = "query"
  /\ hist' = [hist EXCEPT
                ![p].polls = @ + 1,
                ![p].raised = IF outcome.raised THEN @ + 1 ELSE @,
                ![p].saw_success =
                    @ \/ (~outcome.raised /\ outcome.ResultCode = "0")]
  /\ IF outcome.raised
       THEN LoopOrTimeout(p, InnerExcept(attempts[p]))
     ELSE IF Classify(outcome) = "success"
       THEN /\ pc' = [pc EXCEPT ![p] = "update_completed"]
            /\ response' = [response EXCEPT ![p] = outcome]
            /\ UNCHANGED <<attempts, result>>
     ELSE IF Classify(outcome) = "failed"
       THEN /\ pc' = [pc EXCEPT ![p] = "update_failed"]
            /\ response' = [response EXCEPT ![p] = outcome]
            /\ UNCHANGED <<attempts, result>>
     ELSE LoopOrTimeout(p, StillPending(attempts[p]))
  /\ UNCHANGED <<store, now, ticks, mpesa, session, calls, args, transaction>>

\* lines 161-168
UpdateCompleted(p, dbOk) ==
  /\ pc[p] = "update_completed"
  /\ payment_transactions' =
       update_payment_status(payment_transactions, args[p].checkout_request_id,
                             "completed", response[p].MpesaReceiptNumber, dbOk)
  /\ hist' = [hist EXCEPT ![p].updates =
                Append(@, [status |-> "completed",
                           receipt_number |-> response[p].MpesaReceiptNumber])]
  /\ pc' = [pc EXCEPT ![p] = "effect"]
  /\ UNCHANGED <<organization_subscriptions, credits, standard_until, effects,
                 now, ticks, mpesa, session, calls, args, transaction, attempts, response,
                 result>>

\* lines 179-183, 191-195, 212-216: the success returns
CreditsResult(n) ==
  [Returned("verify", TRUE, "Payment successful! credit(s) added.")
     EXCEPT !.credits_added = Some(n)]
SubscriptionResult(end_date) ==
  [Returned("verify", TRUE, "Payment successful! You now have Standard access.")
     EXCEPT !.subscription_end_date = Some(end_date)]
OrganizationResult(tier) ==
  [Returned("verify", TRUE, "Payment successful! subscription active.")
     EXCEPT !.tier = tier]

\* the effect was applied and verify returns
EffectDone(p, res) ==
  /\ effects' = [effects EXCEPT ![args[p].checkout_request_id] = @ + 1]
  /\ hist' = [hist EXCEPT ![p].effect_calls = @ + 1,
                          ![p].effects_applied = @ + 1]
  /\ pc' = [pc EXCEPT ![p] = "done"]
  /\ result' = [result EXCEPT ![p] = res]
  /\ UNCHANGED <<attempts, response>>

\* the effect application raised: nothing applied, the loop's handler runs
EffectRaised(p) ==
  /\ hist' = [hist EXCEPT ![p].effect_calls = @ + 1]
  /\ LoopOrTimeout(p, InnerExcept(attempts[p]))
  /\ UNCHANGED <<organization_subscriptions, credits, standard_until, effects>>

\* line 208: int(amount / seats) if seats > 0 else 0
PricePerSeat(amount, seats) == IF seats > 0 THEN amount \div seats ELSE 0

\* line 203: if organization_id
Truthy(str) == str \notin {NoneVal, ""}

\* lines 170-216: the effect matching the loaded row's transaction_type
ApplyEffect(p, effectOk) ==
  /\ pc[p] = "effect"
  /\ LET tx == transaction[p]
         user_id == args[p].user_id
     IN  CASE tx.transaction_type = "credit_purchase" ->
                IF effectOk
                  THEN /\ credits' =
                            add_credits(credits, user_id, tx.credits_purchased)
                       /\ EffectDone(p, CreditsResult(tx.credits_purchased))
                       /\ UNCHANGED <<organization_subscriptions, standard_until>>
                  ELSE EffectRaised(p)
           [] tx.transaction_type = "subscription" ->
                IF effectOk
                  THEN /\ standard_until' =
                            upgrade_to_standard(standard_until, user_id,
                                                now + PeriodMinutes)
                       /\ EffectDone(p, SubscriptionResult(now + PeriodMinutes))
                       /\ UNCHANGED <<organization_subscriptions, credits>>
                  ELSE EffectRaised(p)
           [] tx.transaction_type = "organization_subscription" ->
                IF Truthy(tx.metadata.organization_id)
                  THEN IF effectOk
                         THEN /\ organization_subscriptions' =
                                   Append(organization_subscriptions,
                                     NewOrganizationSubscription(
                                       tx.metadata.organization_id,
                                       tx.metadata.tier,
                                       Get(tx.metadata.seats),
                                       PricePerSeat(tx.amount,
                                                    Get(tx.metadata.seats)),
                                       now))
                              /\ EffectDone(p, OrganizationResult(tx.metadata.tier))
                              /\ UNCHANGED <<credits, standard_until>>
                         ELSE EffectRaised(p)
                  ELSE \* no branch returns: falls through to lines 232-234
                       /\ LoopOrTimeout(p, StillPending(attempts[p]))
                       /\ UNCHANGED <<organization_subscriptions, credits,
                                      standard_until, effects, hist>>
  /\ UNCHANGED <<payment_transactions, now, ticks, mpesa, session, calls, args, transaction>>

\* faulty variant of FailedResult: the terminal failure is reported as success
FailedResult_Success ==
  Returned("verify", TRUE, "Payment was cancelled or failed. Please try again.")
\* lines 218-230
FailedResult ==
  Returned("verify", FALSE, "Payment was cancelled or failed. Please try again.")
UpdateFailed(p, dbOk) ==
  /\ pc[p] = "update_failed"
  /\ payment_transactions' =
       update_payment_status(payment_transactions, args[p].checkout_request_id,
                             "failed", NoneVal, dbOk)
  /\ hist' = [hist EXCEPT ![p].updates =
                Append(@, [status |-> "failed", receipt_number |-> NoneVal])]
  /\ pc' = [pc EXCEPT ![p] = "done"]
  /\ result' = [result EXCEPT ![p] = FailedResult]
  /\ UNCHANGED <<organization_subscriptions, credits, standard_until, effects,
                 now, ticks, mpesa, session, calls, args, transaction, attempts, response>>

\* ------------------------------------- initiate_organization_purchase, lines 48-113
\* faulty variant of InitiateExcept: the handler is missing, the exception
\* reaches the caller
InitiateExcept_Propagates == Propagated("initiate")
\* lines 108-113: except Exception
InitiateExcept == Returned("initiate", FALSE, "An error occurred. Please try again.")

\* lines 56-62
PurchaseSeats(tier, seats) == IF tier = "individual" THEN 1 ELSE seats
\* faulty variant of PurchaseAmount: the seat count is not applied
PurchaseAmount_PerSeatOnly(tier, seats) == PRICING[tier]
PurchaseAmount(tier, seats) ==
  IF tier = "individual" THEN PRICING[tier] ELSE PRICING[tier] * seats

\* lines 80-90: the row initiate_organization_purchase has inserted
InitiatedRow(user_id, organization_id, tier, seats, checkout_request_id, date) ==
  NewTransaction(user_id, PurchaseAmount(tier, seats),
                 "organization_subscription", checkout_request_id, 0,
                 organization_id, Some(PurchaseSeats(tier, seats)), tier, date)

\* the call's bookkeeping: one action, the call has no step another caller can
\* interleave with that it reads again
StartCallWith(p, op, res, h) ==
  /\ calls' = calls + 1
  /\ pc' = [pc EXCEPT ![p] = "done"]
  /\ args' = [args EXCEPT ![p] = [NoArgs EXCEPT !.op = op]]
  /\ transaction' = [transaction EXCEPT ![p] = NoTransaction]
  /\ attempts' = [attempts EXCEPT ![p] = 0]
  /\ response' = [response EXCEPT ![p] = NoResponse]
  /\ hist' = [hist EXCEPT ![p] = h]
  /\ result' = [result EXCEPT ![p] = res]

StartCall(p, op, res) == StartCallWith(p, op, res, NoHist)

\* lines 48-54: an unknown tier
InitiateInvalidTier(p, tier) ==
  /\ Free(p)
  /\ Len(payment_transactions) < MaxTx
  /\ tier \notin DOMAIN PRICING
  /\ StartCall(p, "initiate",
               Returned("initiate", FALSE, "Invalid subscription tier"))
  /\ UNCHANGED <<store, now, ticks, mpesa, session>>

\* line 65 and lines 108-113: hash_data(None) raises AttributeError
InitiateRaises(p, tier, phone_number) ==
  /\ Free(p)
  /\ Len(payment_transactions) < MaxTx
  /\ tier \in DOMAIN PRICING
  /\ phone_number = None
  /\ StartCall(p, "initiate", InitiateExcept)
  /\ UNCHANGED <<store, now, ticks, mpesa, session>>

\* lines 56-106: the push request and, when the gateway accepted it, the insert
InitiatePush(p, user_id, organization_id, tier, seats, phone_number, answer, transportOk, dbOk) ==
  /\ Free(p)
  /\ Len(payment_transactions) < MaxTx
  /\ tier \in DOMAIN PRICING
  /\ phone_number # None
  /\ LET amount == PurchaseAmount(tier, seats)
         push == initiate_stk_push(Get(phone_number), answer, transportOk)
         \* line 311: the payload's Amount, once the phone number passed
         h == [NoHist EXCEPT
                 !.request = [organization_id |-> organization_id,
                              tier |-> tier, seats |-> Some(seats)],
                 !.push_response = push,
                 !.push_amount =
                     IF sanitize_phone_number(Get(phone_number)).ok
                       THEN Some(amount) ELSE None]
     IN  IF push.ResponseCode = "0"
           THEN \* lines 76-99
                /\ payment_transactions' =
                     create_payment_transaction(
                       payment_transactions,
                       InitiatedRow(user_id, organization_id, tier, seats,
                                    push.CheckoutRequestID, now),
                       dbOk)
                /\ StartCallWith(p, "initiate",
                     [Returned("initiate", TRUE, "Payment request sent. Please check your phone.")
                        EXCEPT !.checkout_request_id = push.CheckoutRequestID,
                               !.amount = Some(amount)], h)
           ELSE \* lines 100-106
                /\ dbOk
                /\ StartCallWith(p, "initiate",
                     Returned("initiate", FALSE,
                              IF push.errorMessage = NoneVal
                                THEN "Payment initiation failed"
                                ELSE push.errorMessage), h)
                /\ UNCHANGED payment_transactions
  /\ UNCHANGED <<organization_subscriptions, credits, standard_until, effects,
                 now, ticks, mpesa, session>>

\* initiate_organization_purchase(user_id, organization_id, tier, seats,
\* phone_number), with the outcomes of its calls to the gateway and the store
Initiate(p, user_id, organization_id, tier, seats, phone_number) ==
  \/ InitiateInvalidTier(p, tier)
  \/ InitiateRaises(p, tier, phone_number)
  \/ \E answer \in PushAnswers, transportOk \in BOOLEAN, dbOk \in BOOLEAN :
       InitiatePush(p, user_id, organization_id, tier, seats, phone_number,
                    answer, transportOk, dbOk)

\* ------------------------------------------------ get_pending_payment, lines 265-277
\* faulty variant of Histories: the rows come in any order
Histories_Unordered(table, user_id, dbOk) ==
  LET mine == {i \in DOMAIN table : table[i].user_id = user_id}
      n == Cardinality(mine)
  IN  IF ~dbOk THEN {<<>>}
      ELSE {h \in [1..n -> mine] : \A i, j \in 1..n : i # j => h[i] # h[j]}

\* DatabaseManager.get_user_payment_history: the user's rows (their indices),
\* newest first; the order of rows of one date is the store's choice; a store
\* error is swallowed into an empty list
Histories(table, user_id, dbOk) ==
  LET mine == {i \in DOMAIN table : table[i].user_id = user_id}
      n == Cardinality(mine)
  IN  IF ~dbOk THEN {<<>>}
      ELSE {h \in [1..n -> mine] :
              /\ \A i, j \in 1..n : i # j => h[i] # h[j]
              /\ \A i, j \in 1..n :
                   i < j => table[h[i]].transaction_date >=
                            table[h[j]].transaction_date}

\* lines 267-274: the first pending row that is less than 30 minutes old;
\* parseOk = FALSE: datetime.fromisoformat rejects the stored date
RECURSIVE ScanPending(_, _, _, _)
ScanPending(table, h, t, parseOk) ==
  IF h = <<>> THEN [raised |-> FALSE, row |-> None]
  ELSE LET tx == table[Head(h)]
       IN  IF tx.payment_status = "pending"
             THEN IF ~parseOk THEN [raised |-> TRUE, row |-> None]
                  ELSE IF (t - tx.transaction_date) * 60 < PendingWindowSeconds
                    THEN [raised |-> FALSE, row |-> Some(tx)]
                  ELSE ScanPending(table, Tail(h), t, parseOk)
             ELSE ScanPending(table, Tail(h), t, parseOk)

\* lines 275-277: except Exception: return None
PendingExcept == [NoResult EXCEPT !.op = "get_pending"]

GetPending(p, user_id, dbOk, parseOk) ==
  /\ Free(p)
  /\ \E h \in Histories(payment_transactions, user_id, dbOk) :
       LET found == ScanPending(payment_transactions, h, now, parseOk)
       IN  StartCallWith(p, "get_pending",
                         IF found.raised THEN PendingExcept
                         ELSE [NoResult EXCEPT !.op = "get_pending",
                                               !.row = found.row],
                         [NoHist EXCEPT !.history_of = user_id,
                                        !.read_failed = ~dbOk \/ found.raised])
  /\ UNCHANGED <<store, now, ticks, mpesa, session>>

\* ------------------------------ session payment guard: payment_verification.py
\* the session's script runs one call at a time
GuardFree == guard.pc = "idle" /\ calls < MaxCalls

GuardCall(op) ==
  [NoGuard EXCEPT !.op = op, !.documents = guard.documents, !.paid = guard.paid]

\* lines 89-94; generate_document_id gives an id no document had
reset_payment_state ==
  /\ GuardFree
  /\ calls' = calls + 1
  /\ session_state' = [payment_status |-> None, payment_verified |-> FALSE,
                       current_document_id |-> Some(guard.documents + 1)]
  /\ guard' = [GuardCall("reset") EXCEPT !.documents = guard.documents + 1]
  /\ UNCHANGED <<store, now, ticks, mpesa, pc, locals>>

\* the application opens another of the session's documents: app.py sets
\* st.session_state["current_document_id"] from the page's document_id
open_document(document_id) ==
  /\ guard.pc = "idle"
  /\ document_id \in 1..guard.documents
  /\ Some(document_id) # session_state.current_document_id
  /\ session_state' = [session_state EXCEPT
                         !.current_document_id = Some(document_id)]
  /\ guard' = [GuardCall("open") EXCEPT !.confirmed = guard.confirmed]
  /\ UNCHANGED <<store, now, ticks, mpesa, calls, pc, locals>>

\* faulty variant of session_update_payment_status: payment_verified stays
session_update_payment_status_KeepsVerified(checkout_request_id, amount) ==
  /\ GuardFree
  /\ calls' = calls + 1
  /\ session_state' =
       [session_state EXCEPT
          !.payment_status =
             Some(PaymentStatus(session_state.current_document_id,
                                checkout_request_id, amount, now))]
  /\ guard' = GuardCall("update")
  /\ UNCHANGED <<store, now, ticks, mpesa, pc, locals>>

\* lines 96-107: the session guard's update_payment_status
session_update_payment_status(checkout_request_id, amount) ==
  /\ GuardFree
  /\ calls' = calls + 1
  /\ session_state' =
       [session_state EXCEPT
          !.payment_status =
             Some(PaymentStatus(session_state.current_document_id,
                                checkout_request_id, amount, now)),
          !.payment_verified = FALSE]
  /\ guard' = GuardCall("update")
  /\ UNCHANGED <<store, now, ticks, mpesa, pc, locals>>

\* handle_download_request lines 114-136: what the session decides
DownloadEntry(ss, t) ==
  IF ss.current_document_id = None THEN "no_document"
  ELSE IF /\ ss.payment_verified
          /\ ss.payment_status # None
          /\ Get(ss.payment_status).document_id = ss.current_document_id
       THEN "verified"
  ELSE IF ss.payment_status = None THEN "no_payment"
  ELSE IF t - Get(ss.payment_status).timestamp > SessionTTLMinutes
       THEN "expired"
  ELSE "verify"

\* faulty variant of ValidSession: the document is not compared
ValidSession_AnyDocument(ss, document_id) == ss.payment_status # None

\* verify_payment lines 37-39
ValidSession(ss, document_id) ==
  /\ ss.payment_status # None
  /\ Get(ss.payment_status).document_id = document_id

\* faulty variant of GuardClassify: a cancelled request counts as paid
GuardClassify_CancelledIsSuccess(resp) ==
  IF resp.ResultCode \in {"0", "1032"} THEN "success"
  ELSE IF resp.ResultCode \in GuardFailureCodes THEN "failed"
  ELSE "pending"

\* verify_payment lines 47-60: what a parsed response means
GuardClassify(resp) ==
  IF resp.ResultCode = "0" THEN "success"
  ELSE IF resp.ResultCode \in GuardFailureCodes THEN "failed"
  ELSE "pending"

\* handle_download_request lines 114-143, up to verify_payment's first query
handle_download_request ==
  /\ GuardFree
  /\ calls' = calls + 1
  /\ LET ss == session_state
         e == DownloadEntry(ss, now)
         g == [GuardCall("download") EXCEPT
                 !.confirmed = guard.confirmed,
                 !.entry = [document |-> ss.current_document_id # None,
                            status |-> ss.payment_status # None,
                            verified |-> ss.payment_verified,
                            age |-> IF ss.payment_status = None THEN None
                                    ELSE Some(now - Get(ss.payment_status).timestamp)]]
     IN  CASE e = "verified" ->
                /\ guard' = [g EXCEPT !.returned = Some(TRUE)]
                /\ UNCHANGED session_state
           [] e \in {"no_document", "no_payment"} ->
                /\ guard' = [g EXCEPT !.returned = Some(FALSE)]
                /\ UNCHANGED session_state
           [] e = "expired" ->
                /\ session_state' = [ss EXCEPT !.payment_status = None]
                /\ guard' = [g EXCEPT !.returned = Some(FALSE),
                                      !.confirmed = FALSE]
           [] e = "verify" ->
                /\ guard' = IF ValidSession(ss, ss.current_document_id)
                            THEN [g EXCEPT
                                    !.pc = "polling",
                                    !.checkout_request_id =
                                       Get(ss.payment_status).checkout_request_id]
                            ELSE [g EXCEPT !.returned = Some(FALSE)]
                /\ UNCHANGED session_state
  /\ UNCHANGED <<store, now, ticks, mpesa, pc, locals>>

\* verify_payment lines 42-69, one attempt, and the return of
\* handle_download_request, lines 144-151, when the attempt was the last
GuardQuery(outcome) ==
  /\ guard.pc = "polling"
  /\ LET kind == IF outcome.raised THEN "pending" ELSE GuardClassify(outcome)
         g == [guard EXCEPT
                 !.queried = TRUE, !.last = outcome,
                 !.kind = IF outcome.raised THEN "raised" ELSE kind,
                 !.confirmed = guard.confirmed
                                 \/ (~outcome.raised /\ outcome.ResultCode = "0"),
                 !.paid = IF ~outcome.raised /\ outcome.ResultCode = "0"
                          THEN guard.paid \cup {guard.checkout_request_id}
                          ELSE guard.paid]
     IN  CASE kind = "success" ->
                /\ session_state' = [session_state EXCEPT !.payment_verified = TRUE]
                /\ guard' = [g EXCEPT !.pc = "idle", !.returned = Some(TRUE)]
           [] kind = "failed" ->
                /\ guard' = [g EXCEPT !.pc = "idle", !.returned = Some(FALSE)]
                /\ UNCHANGED session_state
           [] kind = "pending" ->
                /\ guard' = IF guard.attempts + 1 < GuardMaxAttempts
                            THEN [g EXCEPT !.attempts = guard.attempts + 1]
                            ELSE [g EXCEPT !.attempts = guard.attempts + 1,
                                           !.pc = "idle",
                                           !.returned = Some(FALSE)]
                /\ UNCHANGED session_state
  /\ UNCHANGED <<store, now, ticks, mpesa, calls, pc, locals>>

\* ------------------------------------------------ gateway client: mpesa_handler.py
\* MpesaHandler.__init__: ValueError when a required variable is not set, an
\* exception when no access token is obtained
MpesaHandlerInit(tokenOk) ==
  /\ mpesa.state = "none"
  /\ mpesa' = [mpesa EXCEPT
                 !.state = IF required_vars \subseteq mpesa.env /\ tokenOk
                           THEN "constructed" ELSE "failed"]
  /\ UNCHANGED <<store, now, ticks, calls, pc, locals, session>>

\* a call of _sanitize_phone_number
ClientSanitize(phone_number) ==
  /\ mpesa.state = "constructed"
  /\ LET r == sanitize_phone_number(phone_number)
     IN  mpesa' = [mpesa EXCEPT
                     !.call = [NoClientCall EXCEPT
                                 !.op = "sanitize",
                                 !.phone_number = phone_number,
                                 !.ok = r.ok, !.value = r.value,
                                 !.raised = ~r.ok]]
  /\ UNCHANGED <<store, now, ticks, calls, pc, locals, session>>

\* a call of _sanitize_phone_number with the number the last call returned
ClientSanitizeAgain ==
  /\ mpesa.state = "constructed"
  /\ mpesa.call.op = "sanitize" /\ mpesa.call.ok /\ ~mpesa.call.again
  /\ LET r == sanitize_phone_number(mpesa.call.value)
     IN  mpesa' = [mpesa EXCEPT
                     !.call = [NoClientCall EXCEPT
                                 !.op = "sanitize",
                                 !.phone_number = mpesa.call.value,
                                 !.ok = r.ok, !.value = r.value,
                                 !.raised = ~r.ok, !.again = TRUE]]
  /\ UNCHANGED <<store, now, ticks, calls, pc, locals, session>>

\* a call of initiate_stk_push: every exception becomes a response
ClientPush(phone_number, answer, transportOk) ==
  /\ mpesa.state = "constructed"
  /\ LET r == initiate_stk_push(phone_number, answer, transportOk)
     IN  mpesa' = [mpesa EXCEPT
                     !.call = [NoClientCall EXCEPT
                                 !.op = "push",
                                 !.phone_number = phone_number,
                                 !.ResponseCode = r.ResponseCode]]
  /\ UNCHANGED <<store, now, ticks, calls, pc, locals, session>>

\* a call of query_stk_push: requests.post raises on a query_status_url that
\* is None, and whatever raises is logged and raised again
ClientQuery(outcome) ==
  /\ mpesa.state = "constructed"
  /\ LET missing == "SAF_STK_PUSH_QUERY_API" \notin mpesa.env
         r == IF missing THEN QueryException ELSE outcome
     IN  mpesa' = [mpesa EXCEPT
                     !.call = [NoClientCall EXCEPT
                                 !.op = "query",
                                 !.raised = r.raised,
                                 !.config_missing = missing,
                                 !.ResultCode = r.ResultCode]]
  /\ UNCHANGED <<store, now, ticks, calls, pc, locals, session>>

\* -------------------------------------------------------------------- clock
Tick(d) ==
  /\ ticks < MaxTicks
  /\ ticks' = ticks + 1
  /\ now' = now + d
  /\ UNCHANGED <<store, calls, pc, locals, session, mpesa>>

\* --------------------------------------------------------------------- Next
\* the steps of a call of verify_and_process_payment that is under way
VerifyStep(p) ==
  \/ \E outcome \in QueryOutcomes : Query(p, outcome)
  \/ \E dbOk \in BOOLEAN : UpdateCompleted(p, dbOk)
  \/ \E effectOk \in BOOLEAN : ApplyEffect(p, effectOk)
  \/ \E dbOk \in BOOLEAN : UpdateFailed(p, dbOk)

\* Spec: two callers verify concurrently one transaction that an earlier
\* initiate (or the earlier credit system) has left pending in the store
PendingStores ==
  {<<CreditRow>>,
   <<InitiatedRow("u1", "org_1", "team", 2, "ws_CO_1", 0)>>}

Init == InitWith(PendingStores)

\* each caller makes one call; the callers are interchangeable, so "A" is the
\* one that calls first
First(p) == pc[p] = "idle" /\ (p = "A" \/ pc["A"] # "idle")

Next ==
  \/ \E p \in Procs, c \in CheckoutIds, m \in {1, MaxAttempts},
        dbOk \in BOOLEAN :
        First(p) /\ VerifyStart(p, c, "u1", m, dbOk)
  \/ \E p \in Procs : VerifyStep(p)

Spec == Init /\ [][Next]_vars

\* a call that has started keeps running: the interpreter executes it to its
\* return
FairSpec == Spec /\ \A p \in Procs : WF_vars(VerifyStep(p))

\* ApiSpec: one caller uses the whole API, starting from an empty store or one
\* that holds a row of an earlier purchase kind
ApiInit == InitWith({<<>>, <<SubscriptionRow>>})

ApiNext ==
  \/ \E c \in CheckoutIds, m \in {1, MaxAttempts}, dbOk \in BOOLEAN :
        VerifyStart("A", c, "u1", m, dbOk)
  \/ VerifyStep("A")
  \/ \E o \in Orgs, t \in {"team", "gold"}, ph \in PhoneArgs :
        Initiate("A", "u1", o, t, 2, ph)
  \/ \E u \in Users, dbOk \in BOOLEAN, parseOk \in BOOLEAN :
        GetPending("A", u, dbOk, parseOk)
  \/ \E d \in TickSteps : Tick(d)

ApiSpec == ApiInit /\ [][ApiNext]_vars

\* InitiateSpec: one caller makes initiate calls for every tier and seat count,
\* on an empty store
TierArgs == {"trial", "individual", "team", "gold"}
SeatArgs == {0, 1, 5}

InitiateInit == InitWith({<<>>})

InitiateNext ==
  \E t \in TierArgs, n \in SeatArgs, ph \in PhoneArgs :
    Initiate("A", "u1", "org_1", t, n, ph)

InitiateSpec == InitiateInit /\ [][InitiateNext]_vars

\* RenewSpec: one caller verifies the two purchases an organization has
\* initiated one after the other (2 team seats, then 5)
RenewStores ==
  {<<InitiatedRow("u1", "org_1", "team", 2, "ws_CO_1", 0),
     InitiatedRow("u1", "org_1", "team", 5, "ws_CO_2", 0)>>}

RenewInit == InitWith(RenewStores)

RenewNext ==
  \/ \E c \in CheckoutIds, m \in {1, MaxAttempts}, dbOk \in BOOLEAN :
        VerifyStart("A", c, "u1", m, dbOk)
  \/ VerifyStep("A")

RenewSpec == RenewInit /\ [][RenewNext]_vars

\* PendingSpec: one caller asks for the pending payment of a user whose
\* history holds an older and a newer transaction, each pending, completed
\* or failed, next to a pending one of another user, as the clock passes the
\* 30 minutes
PendingRow(user_id, checkout_request_id, date, status) ==
  LET row == InitiatedRow(user_id, "org_1", "team", 2, checkout_request_id, date)
  IN  IF status = "pending" THEN row
      ELSE update_payment_status(<<row>>, checkout_request_id, status,
                                 IF status = "completed" THEN "RCT1" ELSE NoneVal,
                                 TRUE)[1]

PendingHistories ==
  {<<PendingRow("u1", "ws_CO_1", 0, s1), PendingRow("u1", "ws_CO_2", 1, s2)>> :
     s1, s2 \in {"pending", "completed", "failed"}}
  \cup {<<PendingRow("u1", "ws_CO_1", 0, "pending"),
          PendingRow("u2", "ws_CO_2", 1, "pending")>>}

\* minutes to the moments 29, 30 and 31 minutes after the older transaction
PendingTickSteps == {29, 30, 31}

PendingInit == InitWith(PendingHistories)

PendingNext ==
  \/ \E u \in Users, dbOk \in BOOLEAN, parseOk \in BOOLEAN :
        GetPending("A", u, dbOk, parseOk)
  \/ \E d \in PendingTickSteps : Tick(d)

PendingSpec == PendingInit /\ [][PendingNext]_vars

\* GuardSpec: one UI session resets, records payments, asks for the download
\* and lets time pass; it starts new, or with a payment recorded for its
\* document at time 0, not yet verified or verified
RecordedSession ==
  [payment_status |-> Some(PaymentStatus(Some(1), "ws_CO_1", 100, 0)),
   payment_verified |-> FALSE, current_document_id |-> Some(1)]
VerifiedSession == [RecordedSession EXCEPT !.payment_verified = TRUE]
GuardSessions == {init_payment_state, RecordedSession, VerifiedSession}

\* minutes to the moments 29 and 31 minutes after the payment was recorded
GuardTickSteps == {29, 31}

GuardInit == InitSession({<<>>}, GuardSessions)

GuardNext ==
  \/ reset_payment_state
  \/ \E c \in CheckoutIds, a \in GuardAmounts : session_update_payment_status(c, a)
  \/ handle_download_request
  \/ \E outcome \in QueryOutcomes : GuardQuery(outcome)
  \/ \E d \in GuardTickSteps : guard.pc = "idle" /\ Tick(d)

GuardSpec == GuardInit /\ [][GuardNext]_vars

\* DocumentSpec: the session of GuardSpec has two documents, a payment
\* recorded for the second, and moves between them
SecondDocumentSession ==
  [payment_status |-> Some(PaymentStatus(Some(2), "ws_CO_1", 100, 0)),
   payment_verified |-> FALSE, current_document_id |-> Some(2)]
DocumentSessions ==
  {RecordedSession, SecondDocumentSession,
   [SecondDocumentSession EXCEPT !.payment_verified = TRUE]}
DocumentArgs == {1, 2, 3}

DocumentInit == InitSession({<<>>}, DocumentSessions)

DocumentNext ==
  \/ reset_payment_state
  \/ \E c \in CheckoutIds, a \in GuardAmounts : session_update_payment_status(c, a)
  \/ handle_download_request
  \/ \E outcome \in QueryOutcomes : GuardQuery(outcome)
  \/ \E d \in DocumentArgs : open_document(d)

DocumentSpec == DocumentInit /\ [][DocumentNext]_vars

\* ClientSpec: a MpesaHandler is made in an environment that sets all the
\* variables or all but one, and its methods are called
P0712345678 == <<0, 7, 1, 2, 3, 4, 5, 6, 7, 8>>
P712345678 == <<7, 1, 2, 3, 4, 5, 6, 7, 8>>
P254712345678 == <<2, 5, 4, 7, 1, 2, 3, 4, 5, 6, 7, 8>>
P123 == <<1, 2, 3>>
PhonePrefixes ==
  {<<>>, <<0>>, <<10>>, <<2, 5, 4>>, <<10, 2, 5, 4>>, <<11>>, <<2, 5, 4, 0>>}
PhoneBodies ==
  {P712345678, <<1, 1, 2, 3, 4, 5, 6, 7, 8>>,
   <<7, 1, 2, 10, 3, 4, 5, 6, 7, 8>>,
   <<11, 11, 11, 11, 11, 11, 11, 11, 11>>, P123, <<>>}
PhoneSuffixes == {<<>>, <<9>>, <<10>>}
PhoneInputs ==
  {pre \o body \o suf :
     pre \in PhonePrefixes, body \in PhoneBodies, suf \in PhoneSuffixes}

Environments == {ConfigNames} \cup {ConfigNames \ {v} : v \in ConfigNames}

ClientInit ==
  InitClient({<<>>}, {init_payment_state},
             {NotConstructed(env) : env \in Environments})

ClientNext ==
  \/ \E tokenOk \in BOOLEAN : MpesaHandlerInit(tokenOk)
  \/ \E ph \in PhoneInputs : ClientSanitize(ph)
  \/ ClientSanitizeAgain
  \/ \E ph \in {P0712345678, P123}, answer \in PushAnswers, transportOk \in BOOLEAN :
        ClientPush(ph, answer, transportOk)
  \/ \E outcome \in QueryOutcomes : ClientQuery(outcome)

ClientSpec == ClientInit /\ [][ClientNext]_vars

\* OwnerSpec: either user verifies a pending credit or subscription purchase
\* of u1
OwnerStores == {<<CreditRow>>, <<SubscriptionRow>>}

OwnerInit == InitWith(OwnerStores)

OwnerNext ==
  \/ \E c \in CheckoutIds, u \in Users, m \in {1, MaxAttempts}, dbOk \in BOOLEAN :
        VerifyStart("A", c, u, m, dbOk)
  \/ VerifyStep("A")

OwnerSpec == OwnerInit /\ [][OwnerNext]_vars

\* ================================================================== properties
Verifying(p) == args[p].op = "verify"
VerifyDone(p) == Verifying(p) /\ pc[p] = "done"
\* the call loaded its row while the row was pending
LoadedPending(p) == Verifying(p) /\ transaction[p].payment_status = "pending"
\* every stored row of this checkout id has this status
StoredStatusIs(checkout_request_id, status) ==
  \A i \in Matching(payment_transactions, checkout_request_id) :
    payment_transactions[i].payment_status = status

\* C1: when two verify calls for one checkout_request_id both load the row
\* while it is pending, before any effect was applied for it, and both poll
\* ResultCode "0", the financial effect is applied at most once.
C1_ConcurrentVerifyAppliesOnce ==
  \A p, q \in Procs :
    ( /\ p # q
      /\ LoadedPending(p) /\ LoadedPending(q)
      /\ args[p].checkout_request_id = args[q].checkout_request_id
      /\ hist[p].effects_at_load = 0 /\ hist[q].effects_at_load = 0
      /\ hist[p].saw_success /\ hist[q].saw_success )
    => effects[args[p].checkout_request_id] <= 1

\* C2: a verify call that finds the row, made after an earlier verify of the
\* same checkout_request_id polled "0" and returned success (so after the
\* effect was applied), returns success with already_processed and applies no
\* effect: over the calls the effect is applied exactly once.
C2_SecondVerifyShortCircuits ==
  \A p \in Procs :
    ( /\ VerifyDone(p)
      /\ ~IsNone(transaction[p])
      /\ hist[p].effects_at_load >= 1 )
    => /\ result[p].success
       /\ result[p].already_processed
       /\ hist[p].effects_applied = 0
       /\ effects[args[p].checkout_request_id] = 1

\* C3: a stored payment_status never leaves completed and never leaves failed.
C3_StatusMonotonic ==
  [][\A i \in DOMAIN payment_transactions :
       /\ payment_transactions[i].payment_status = "completed"
            => payment_transactions'[i].payment_status = "completed"
       /\ payment_transactions[i].payment_status = "failed"
            => payment_transactions'[i].payment_status = "failed"]_vars

\* the result codes that end a verification as failed
TerminalFailure(code) == code \in {"1032", "1037", "1"}
\* the status arguments of the update_payment_status calls of p's call
Statuses(p) == [i \in DOMAIN hist[p].updates |-> hist[p].updates[i].status]
Count(seq, v) == Cardinality({i \in DOMAIN seq : seq[i] = v})

\* C4: a verify call of a pending transaction in which no poll returned "0" or
\* a terminal-failure code (unrecognized codes and an absent ResultCode
\* included) returns the timeout result with success = false after
\* max_attempts polls, has made no write to the transaction, and the stored
\* status is still pending.
C4_TimeoutLeavesPending ==
  \A p \in Procs :
    ( /\ VerifyDone(p)
      /\ LoadedPending(p)
      /\ ~hist[p].saw_success
      /\ ~TerminalFailure(response[p].ResultCode) )
    => /\ result[p] = TimeoutResult
       /\ ~result[p].success
       /\ hist[p].polls = args[p].max_attempts
       /\ hist[p].updates = <<>>
       /\ hist[p].effect_calls = 0
       /\ StoredStatusIs(args[p].checkout_request_id, "pending")

\* every poll of the call returned a code that is neither "0" nor terminal
C4_Witness ==
  \E p \in Procs :
    /\ VerifyDone(p) /\ LoadedPending(p)
    /\ args[p].max_attempts = MaxAttempts
    /\ hist[p].polls = MaxAttempts
    /\ hist[p].raised = 0
    /\ ~hist[p].saw_success
    /\ result[p] = TimeoutResult

\* the detail a successful result carries for the row's transaction_type
TypeDetail(res, tx) ==
  CASE tx.transaction_type = "credit_purchase" ->
         res.credits_added = Some(tx.credits_purchased)
    [] tx.transaction_type = "subscription" ->
         res.subscription_end_date # None
    [] tx.transaction_type = "organization_subscription" ->
         res.tier = tx.metadata.tier
    [] OTHER -> FALSE

\* C5: a verify call of a pending transaction in which a poll returned "0"
\* has written [completed, receipt] before it applies the effect, and when it
\* has returned it has made that write exactly once and returns success with
\* the detail of the transaction's type.
C5_SuccessWritesOnceThenEffect ==
  \A p \in Procs :
    /\ (Verifying(p) /\ pc[p] = "effect")
         => /\ Len(hist[p].updates) >= 1
            /\ hist[p].updates[Len(hist[p].updates)] =
                 [status |-> "completed", receipt_number |-> "RCT1"]
    /\ (VerifyDone(p) /\ LoadedPending(p) /\ hist[p].saw_success)
         => /\ hist[p].updates =
                 <<[status |-> "completed", receipt_number |-> "RCT1"]>>
            /\ result[p].success
            /\ TypeDetail(result[p], transaction[p])

\* C6: when a poll of a pending transaction has returned 1032, 1037 or 1, the
\* call writes failed once with no receipt number as its last write, applies
\* no effect, polls no more (that poll is its last: one poll per consumed
\* attempt, plus this one) and returns success = false.
C6_TerminalFailure ==
  \A p \in Procs :
    ( /\ Verifying(p)
      /\ LoadedPending(p)
      /\ TerminalFailure(response[p].ResultCode) )
    => /\ pc[p] \in {"update_failed", "done"}
       /\ hist[p].polls = attempts[p] + 1
       /\ hist[p].effects_applied = 0
       /\ pc[p] = "update_failed" => Count(Statuses(p), "failed") = 0
       /\ pc[p] = "done" =>
            /\ Count(Statuses(p), "failed") = 1
            /\ hist[p].updates[Len(hist[p].updates)] =
                 [status |-> "failed", receipt_number |-> NoneVal]
            /\ ~result[p].success
            /\ ~result[p].raised
            /\ result[p].op = "verify"

\* a terminal code arrived on a later attempt and the call has returned
C6_Witness ==
  \E p \in Procs :
    /\ VerifyDone(p) /\ LoadedPending(p)
    /\ response[p].ResultCode = "1032"
    /\ attempts[p] >= 1
    /\ StoredStatusIs(args[p].checkout_request_id, "failed")

\* C7: a verify call that loads a row whose status is completed has returned
\* success with already_processed, and has made no gateway query, no
\* update_payment_status call and no call of the credit/subscription authority.
C7_AlreadyCompleted ==
  \A p \in Procs :
    (Verifying(p) /\ transaction[p].payment_status = "completed")
    => /\ pc[p] = "done"
       /\ hist[p].polls = 0
       /\ hist[p].updates = <<>>
       /\ hist[p].effect_calls = 0
       /\ result[p].success
       /\ result[p].already_processed
       /\ effects[args[p].checkout_request_id] = hist[p].effects_at_load

C7_Witness ==
  \E p \in Procs :
    /\ VerifyDone(p)
    /\ transaction[p].payment_status = "completed"
    /\ result[p].already_processed
    /\ effects[args[p].checkout_request_id] = 1

\* a step in which a gateway query of p's call raised
QueryRaised(p) == hist'[p].raised = hist[p].raised + 1

\* C8: a step in which the gateway query raises consumes exactly one attempt,
\* leaves the stored rows as they are, and the call polls again when attempts
\* remain (it times out otherwise); and a verify call that found its row
\* returns a failure with attempts left only when its last poll returned a
\* terminal-failure code.
C8_QueryExceptionCaught ==
  /\ [][\A p \in Procs :
          QueryRaised(p) =>
            /\ attempts'[p] = attempts[p] + 1
            /\ payment_transactions' = payment_transactions
            /\ IF attempts'[p] < args[p].max_attempts
                 THEN pc'[p] = "query"
                 ELSE pc'[p] = "done" /\ result'[p] = TimeoutResult]_vars
  /\ [](\A p \in Procs :
          ( /\ VerifyDone(p)
            /\ ~IsNone(transaction[p])
            /\ ~result[p].success
            /\ attempts[p] < args[p].max_attempts )
          => TerminalFailure(response[p].ResultCode))

\* after a query raised, the call is polling again
C8_Witness ==
  \E p \in Procs :
    /\ Verifying(p)
    /\ hist[p].raised >= 1
    /\ attempts[p] = 1
    /\ pc[p] = "query"

\* C9: a verify call never makes more than max_attempts gateway queries, and
\* every call that has started returns a result.
C9_VerifyTerminates ==
  /\ [](\A p \in Procs :
          Verifying(p) => hist[p].polls <= args[p].max_attempts)
  /\ \A p \in Procs :
       (pc[p] \notin {"idle", "done"})
         ~> (pc[p] = "done" /\ result[p].op = "verify" /\ ~result[p].raised)

\* a call that met a query exception and an effect failure has returned after
\* max_attempts queries
C9_Witness ==
  \E p \in Procs :
    /\ VerifyDone(p)
    /\ args[p].max_attempts = MaxAttempts
    /\ hist[p].polls = MaxAttempts
    /\ hist[p].raised >= 1
    /\ hist[p].effect_calls >= 1
    /\ hist[p].effects_applied = 0

\* C10: no call of initiate_organization_purchase, verify_and_process_payment
\* or get_pending_payment lets an exception reach its caller; a call that has
\* returned holds a result of its own operation.
C10_NeverRaises ==
  \A p \in Procs :
    /\ ~result[p].raised
    /\ pc[p] = "done" => result[p].op = args[p].op

\* an exception inside initiate_organization_purchase came back as a result
C10_Witness ==
  \E p \in Procs :
    /\ pc[p] = "done"
    /\ args[p].op = "initiate"
    /\ result[p] = InitiateExcept
    /\ ~result[p].success

\* the row a verify call leaves when it marked the loaded row tx completed and
\* applied its effect
AppliedRow(tx) ==
  [tx EXCEPT !.payment_status = "completed", !.mpesa_receipt_number = "RCT1"]
\* the effect application of p's call raised
EffectFailed(p) ==
  Verifying(p) /\ hist[p].effect_calls > hist[p].effects_applied

\* C11: when the effect application of a verify call has failed after the row
\* was marked completed, the stored row is completed and differs (by a marker)
\* from the row of a completed transaction whose effect was applied.
C11_EffectFailureMarked ==
  \A p \in Procs :
    ( /\ EffectFailed(p)
      /\ LoadedPending(p)
      /\ effects[args[p].checkout_request_id] = 0
      /\ StoredStatusIs(args[p].checkout_request_id, "completed") )
    => \A i \in Matching(payment_transactions, args[p].checkout_request_id) :
         /\ payment_transactions[i].payment_status = "completed"
         /\ payment_transactions[i] # AppliedRow(transaction[p])

\* C12: a verify call made after a verify of the same checkout_request_id
\* timed out, which finds the row still pending and polls "0", leaves the row
\* completed and has applied the effect exactly once.
C12_RetryAfterTimeoutResolves ==
  \A p \in Procs :
    ( /\ VerifyDone(p)
      /\ hist[p].after_timeout
      /\ LoadedPending(p)
      /\ hist[p].effects_at_load = 0
      /\ hist[p].saw_success )
    => /\ StoredStatusIs(args[p].checkout_request_id, "completed")
       /\ hist[p].effects_applied = 1
       /\ effects[args[p].checkout_request_id] = 1

\* a step in which an initiate_organization_purchase call of p runs and returns
InitiateReturns(p) == calls' = calls + 1 /\ args'[p].op = "initiate"

\* C13: an initiate call appends one row exactly when the push response has
\* ResponseCode "0": the row is pending, of type organization_subscription,
\* with credits_purchased 0, the gateway's CheckoutRequestID and the
\* organization id, seats and tier in its metadata, and the call returns
\* success with that checkout id; otherwise (unknown tier, any other response)
\* the table is unchanged and the call returns success = false.
C13_PersistsIffAccepted ==
  [][\A p \in Procs :
       InitiateReturns(p) =>
         LET push == hist'[p].push_response
             req == hist'[p].request
             n == Len(payment_transactions)
         IN  IF push.ResponseCode = "0"
               THEN /\ result'[p].success
                    /\ result'[p].checkout_request_id = push.CheckoutRequestID
                    /\ Len(payment_transactions') = n + 1
                    /\ SubSeq(payment_transactions', 1, n) = payment_transactions
                    /\ LET row == payment_transactions'[n + 1]
                       IN  /\ row.payment_status = "pending"
                           /\ row.transaction_type = "organization_subscription"
                           /\ row.credits_purchased = 0
                           /\ row.checkout_request_id = push.CheckoutRequestID
                           /\ row.metadata.organization_id = req.organization_id
                           /\ row.metadata.tier = req.tier
                           /\ row.metadata.seats # None
               ELSE /\ ~result'[p].success
                    /\ payment_transactions' = payment_transactions]_vars

\* price per seat times seats; one seat for the individual tier
ExpectedSeats(req) == IF req.tier = "individual" THEN 1 ELSE Get(req.seats)
ExpectedAmount(req) == PRICING[req.tier] * ExpectedSeats(req)

RecordsOf(organization_id) ==
  {i \in DOMAIN organization_subscriptions :
     organization_subscriptions[i].organization_id = organization_id}

\* C15: after a verify call of an organization_subscription row, no effect of
\* which was applied before, has returned success for a poll of "0", the
\* organization has one subscription record; it
\* is active, holds the tier and seats of the row's metadata, and its period
\* is 30 days.
C15_OrganizationRecordCreatedOrUpdated ==
  \A p \in Procs :
    ( /\ VerifyDone(p)
      /\ LoadedPending(p)
      /\ transaction[p].transaction_type = "organization_subscription"
      /\ hist[p].effects_at_load = 0
      /\ hist[p].saw_success
      /\ result[p].success )
    => LET meta == transaction[p].metadata
           recs == RecordsOf(meta.organization_id)
       IN  /\ Cardinality(recs) = 1
           /\ \A i \in recs :
                LET rec == organization_subscriptions[i]
                IN  /\ rec.status = "active"
                    /\ rec.subscription_tier = meta.tier
                    /\ rec.seats_purchased = Get(meta.seats)
                    /\ rec.current_period_end =
                         rec.current_period_start + PeriodMinutes

\* C16: the store holds at most one transaction per checkout_request_id.
C16_OneTransactionPerCheckoutId ==
  \A c \in CheckoutIds : Cardinality(Matching(payment_transactions, c)) <= 1

\* C17: every row initiate_organization_purchase has inserted and every push
\* request it has sent has amount > 0.
C17_AmountPositive ==
  /\ \A i \in DOMAIN payment_transactions :
       payment_transactions[i].transaction_type = "organization_subscription"
         => payment_transactions[i].amount > 0
  /\ \A p \in Procs :
       hist[p].push_amount # None => Get(hist[p].push_amount) > 0

\* a step in which a get_pending_payment call of p runs and returns
GetPendingReturns(p) == calls' = calls + 1 /\ args'[p].op = "get_pending"
\* the user's pending transactions that are less than 30 minutes old
FreshPending(user_id) ==
  {i \in DOMAIN payment_transactions :
     /\ payment_transactions[i].user_id = user_id
     /\ payment_transactions[i].payment_status = "pending"
     /\ now - payment_transactions[i].transaction_date < 30}
\* those of the rows S that no row of S is newer than
MostRecent(S) ==
  {i \in S : \A j \in S : payment_transactions[j].transaction_date
                            <= payment_transactions[i].transaction_date}

\* C18 (as claimed): get_pending_payment returns a most recent one of the
\* user's pending transactions less than 30 minutes old, and None only when
\* there is none.
C18_ReturnsMostRecentFreshPending ==
  [][\A p \in Procs :
       GetPendingReturns(p) =>
         LET S == FreshPending(hist'[p].history_of)
             row == result'[p].row
         IN  /\ row # None
                  => \E i \in MostRecent(S) : payment_transactions[i] = Get(row)
             /\ row = None => S = {}]_vars

\* C18 (amended): the same, but None is also what the call returns when the
\* store's read fails or a stored date cannot be parsed.
C18_ReturnsMostRecentFreshPendingUnlessReadFails ==
  [][\A p \in Procs :
       GetPendingReturns(p) =>
         LET S == FreshPending(hist'[p].history_of)
             row == result'[p].row
         IN  /\ row # None
                  => \E i \in MostRecent(S) : payment_transactions[i] = Get(row)
             /\ (row = None /\ ~hist'[p].read_failed) => S = {}
             /\ hist'[p].read_failed => row = None]_vars

\* 30 minutes after the older pending transaction, 29 after the newer one,
\* the call has returned the newer one
C18_Witness ==
  \E p \in Procs :
    /\ pc[p] = "done" /\ args[p].op = "get_pending"
    /\ hist[p].history_of = "u1"
    /\ now = 30
    /\ payment_transactions[1].payment_status = "pending"
    /\ payment_transactions[1].user_id = "u1"
    /\ result[p].row = Some(payment_transactions[2])

\* handle_download_request has returned r
DownloadReturned(r) == guard.op = "download" /\ guard.returned = Some(r)
\* the verification the call made ended without the gateway's "0"
VerificationFailed ==
  /\ guard.queried
  /\ \/ guard.last.raised
     \/ guard.last.ResultCode # "0"

\* C19: handle_download_request returns True only if the gateway answered
\* ResultCode 0 for the checkout id of the session's PaymentStatus since that
\* was recorded; with no PaymentStatus, with no current document id, or after
\* a verification that ended in a failure code, a timeout or an exception it
\* returns False.
C19_DownloadOnlyAfterGatewaySuccess ==
  /\ DownloadReturned(TRUE) => guard.confirmed
  /\ (guard.op = "download" /\ guard.returned # None
        /\ (~guard.entry.status \/ ~guard.entry.document \/ VerificationFailed))
       => DownloadReturned(FALSE)

\* the download was refused after the gateway reported the request cancelled
C19_Witness ==
  /\ DownloadReturned(FALSE)
  /\ guard.queried /\ guard.last.ResultCode = "1032"
  /\ guard.entry.status /\ guard.entry.document

\* C20: a download asked for 29 minutes after the PaymentStatus was created
\* is allowed when the payment is verified or the gateway confirms it, and one
\* asked for 31 minutes after it is refused, verified or not.
C20_ExpiresThirtyMinutesAfterCreation ==
  (guard.op = "download" /\ guard.returned # None /\ guard.entry.document
     /\ guard.entry.age # None)
    => /\ Get(guard.entry.age) >= 31 => DownloadReturned(FALSE)
       /\ (Get(guard.entry.age) <= 29
             /\ (guard.entry.verified
                   \/ (guard.queried /\ ~guard.last.raised
                         /\ guard.last.ResultCode = "0")))
            => DownloadReturned(TRUE)

\* a step of reset_payment_state
ResetReturns == calls' = calls + 1 /\ guard'.op = "reset"
\* C21: reset_payment_state leaves a document id no document of the session
\* had, no PaymentStatus and no verified flag; and handle_download_request
\* returns True only while the PaymentStatus is bound to the current document
\* and the gateway has confirmed its payment, so a payment of another document
\* never authorizes.
C21_PaymentAuthorizesItsDocumentOnly ==
  [][/\ ResetReturns =>
          /\ session_state'.current_document_id # None
          /\ Get(session_state'.current_document_id) \notin 1..guard.documents
          /\ session_state'.current_document_id # session_state.current_document_id
          /\ session_state'.payment_status = None
          /\ ~session_state'.payment_verified
     /\ (guard'.op = "download" /\ guard'.returned = Some(TRUE))
          => /\ session_state'.payment_status # None
             /\ Get(session_state'.payment_status).document_id
                  = session_state'.current_document_id
             /\ guard'.confirmed]_vars

\* a verified payment of document 2 was refused for document 1
C21_Witness ==
  /\ DownloadReturned(FALSE)
  /\ guard.entry.verified /\ guard.entry.status
  /\ session_state.current_document_id = Some(1)
  /\ session_state.payment_status # None
  /\ Get(session_state.payment_status).document_id = Some(2)

\* a step of the session guard's update_payment_status
UpdateReturns == calls' = calls + 1 /\ guard'.op = "update"

\* C22: update_payment_status leaves a PaymentStatus bound to the current
\* document, created now, and payment_verified False; and the download is
\* allowed only when the gateway has confirmed the checkout id of the
\* PaymentStatus the session holds, not one recorded before it.
C22_NewInitiationNeedsItsOwnVerification ==
  [][/\ UpdateReturns =>
          /\ session_state'.payment_status # None
          /\ Get(session_state'.payment_status).document_id
               = session_state.current_document_id
          /\ Get(session_state'.payment_status).timestamp = now
          /\ session_state'.current_document_id
               = session_state.current_document_id
          /\ ~session_state'.payment_verified
     /\ (guard'.op = "download" /\ guard'.returned = Some(TRUE))
          => /\ session_state'.payment_status # None
             /\ Get(session_state'.payment_status).checkout_request_id
                  \in guard'.paid]_vars

\* after ws_CO_1 was verified, ws_CO_2 was recorded and the download refused
C22_Witness ==
  /\ DownloadReturned(FALSE)
  /\ "ws_CO_1" \in guard.paid
  /\ "ws_CO_2" \notin guard.paid
  /\ session_state.payment_status # None
  /\ Get(session_state.payment_status).checkout_request_id = "ws_CO_2"
  /\ ~session_state.payment_verified

\* a step in which verify_payment gets an answer to its query
GuardPolls == guard.pc = "polling" /\ guard' # guard

\* C23: the session guard's verify_payment takes every gateway answer for
\* what verify_and_process_payment takes it for (success, terminal failure or
\* still pending), and counts a query exception as one attempt as it does.
C23_GuardPollsLikeOrchestrator ==
  [][GuardPolls =>
       IF guard'.last.raised
       THEN guard'.attempts = InnerExcept(guard.attempts)
       ELSE /\ guard'.kind = Classify(guard'.last)
            /\ guard'.kind = "pending"
                 => guard'.attempts = StillPending(guard.attempts)]_vars

\* the last call of the handler was _sanitize_phone_number
Sanitized == mpesa.call.op = "sanitize"
\* a string of exactly 12 of the digits 0..9 that starts with 254
Canonical(number) ==
  /\ Len(number) = 12
  /\ \A i \in 1..Len(number) : number[i] \in 0..9
  /\ StartsWith(number, CountryCode)

\* C24: _sanitize_phone_number maps "0712345678", "712345678" and
\* "254712345678" to "254712345678" and rejects "123"; whatever it returns is
\* 12 digits starting with 254; called with what it returned, it returns it.
C24_SanitizeIsCanonical ==
  Sanitized =>
    /\ mpesa.call.phone_number \in {P0712345678, P712345678, P254712345678}
         => mpesa.call.ok /\ mpesa.call.value = P254712345678
    /\ mpesa.call.phone_number = P123 => ~mpesa.call.ok
    /\ mpesa.call.ok => Canonical(mpesa.call.value)
    /\ mpesa.call.again
         => mpesa.call.ok /\ mpesa.call.value = mpesa.call.phone_number

\* the last call of the handler was query_stk_push
Queried == mpesa.call.op = "query"

\* C25: query_stk_push never raises; with every configuration value set, a
\* transport or parsing problem comes back as a response, which the polling
\* loop takes for still pending.
C25_QueryNeverRaises ==
  (Queried /\ ~mpesa.call.config_missing)
    => /\ ~mpesa.call.raised
       /\ mpesa.call.ResultCode # NoneVal

\* C26: a handler that was constructed has every configuration value, so that
\* no call of it meets a missing one.
C26_ConstructionChecksEveryValue ==
  /\ mpesa.state = "constructed" => ConfigNames \subseteq mpesa.env
  /\ ~mpesa.call.config_missing

\* a step that applies the financial effect of this checkout id
EffectApplied(checkout_request_id) ==
  effects'[checkout_request_id] = effects[checkout_request_id] + 1

\* C27: in the step in which verify_and_process_payment applies the effect of
\* a checkout id, the stored status of its transaction is completed, whether
\* or not the status update before it succeeded.
C27_EffectOnlyOnCompletedRow ==
  [][\A c \in CheckoutIds :
       EffectApplied(c) => StoredStatusIs(c, "completed")]_vars

\* C28: when initiate_organization_purchase returns success with a checkout
\* id, the store holds a pending row of that id, and a verify of that id that
\* follows does not answer "Transaction not found".
C28_SuccessfulInitiateIsStored ==
  [][\A p \in Procs :
       /\ (InitiateReturns(p) /\ result'[p].success)
            => \E i \in Matching(payment_transactions',
                                 result'[p].checkout_request_id) :
                 payment_transactions'[i].payment_status = "pending"
       /\ (args[p].op = "initiate" /\ pc[p] = "done" /\ result[p].success
             /\ args'[p].op = "verify"
             /\ args'[p].checkout_request_id = result[p].checkout_request_id
             /\ pc'[p] = "done")
            => result'[p].message # "Transaction not found"]_vars

\* the call has written this status to its transaction
Wrote(p, status) ==
  /\ \E i \in DOMAIN hist[p].updates : hist[p].updates[i].status = status
  /\ StoredStatusIs(args[p].checkout_request_id, status)

\* C29: a verify call that has written completed returns success, and one
\* that returns the timeout failure has written nothing.
C29_ResultAgreesWithStore ==
  \A p \in Procs :
    VerifyDone(p) =>
      /\ Wrote(p, "completed") => result[p].success
      /\ result[p] = TimeoutResult => hist[p].updates = <<>>

\* the step changes what the user has: the credit balance or the subscription
Benefits(user_id) ==
  \/ credits'[user_id] # credits[user_id]
  \/ standard_until'[user_id] # standard_until[user_id]

\* C30: a step of verify_and_process_payment that credits a user or activates
\* a user's subscription does so for the user_id of the transaction it
\* loaded, whatever its user_id argument is.
C30_EffectGoesToOwner ==
  [][\A u \in Users :
       Benefits(u) => \E p \in Procs : /\ pc[p] = "effect"
                                       /\ transaction[p].user_id = u]_vars

====
